---- MODULE Spec2Model ----
(***************************************************************************)
(* A model of src/Web_Crawler_App_14.py: the crawl session kept in         *)
(* st.session_state.crawl_data, the script run that Streamlit starts on    *)
(* every widget event, and the two per-phase loops of main().              *)
(*                                                                         *)
(* URLs, hosts, hrefs and anchor texts are strings; the string functions   *)
(* of the source (replace, lower, endswith, "in", startswith, urlparse's   *)
(* netloc, the /category/ regular expression) are computed on them.        *)
(* What the network returns for a request is an input: every fetch draws   *)
(* its response from Responses(url).  The keyword matcher's verdict on a   *)
(* page (fuzz.partial_ratio is a library) is part of that response.        *)
(***************************************************************************)
EXTENDS Integers, Sequences, FiniteSets, TLC

(***************************************************************************)
(* Strings                                                                 *)
(***************************************************************************)

\* s[i..] , Python's s[i-1:]
Drop(s, n) == SubSeq(s, n + 1, Len(s))

\* whether sub occurs in s at position i (s[i-1:].startswith(sub))
OccursAt(s, i, sub) ==
    i >= 1 /\ i + Len(sub) - 1 <= Len(s) /\ SubSeq(s, i, i + Len(sub) - 1) = sub

\* Python's s.startswith(p)
StartsWith(s, p) == OccursAt(s, 1, p)

\* Python's s.endswith(p)
EndsWith(s, p) == Len(p) <= Len(s) /\ SubSeq(s, Len(s) - Len(p) + 1, Len(s)) = p

\* Python's  sub in s
Contains(s, sub) ==
    \E i \in 1..(Len(s) - Len(sub) + 1) : SubSeq(s, i, i + Len(sub) - 1) = sub

\* Python's s.find(sub) + 1 (0 when sub does not occur)
Find(s, sub) ==
    IF Contains(s, sub)
    THEN CHOOSE i \in 1..(Len(s) - Len(sub) + 1) :
            /\ SubSeq(s, i, i + Len(sub) - 1) = sub
            /\ \A j \in 1..(i - 1) : SubSeq(s, j, j + Len(sub) - 1) # sub
    ELSE 0

\* str.lower() on one character, over the letters the model's strings use
LowerChar(c) ==
    CASE c = "M" -> "m"
      [] c = "T" -> "t"
      [] c = "W" -> "w"
      [] c = "X" -> "x"
      [] OTHER -> c

RECURSIVE Lower(_)
Lower(s) == IF s = "" THEN "" ELSE LowerChar(SubSeq(s, 1, 1)) \o Lower(Drop(s, 1))

\* Python's s.replace("www.", ""): every occurrence, scanning left to right
RECURSIVE ReplaceWww(_)
ReplaceWww(s) ==
    IF Len(s) < 4 THEN s
    ELSE IF SubSeq(s, 1, 4) = "www." THEN ReplaceWww(Drop(s, 4))
    ELSE SubSeq(s, 1, 1) \o ReplaceWww(Drop(s, 1))

\* Python's s.strip(), over the blank
RECURSIVE Strip(_)
Strip(s) ==
    IF s = "" THEN ""
    ELSE IF SubSeq(s, 1, 1) = " " THEN Strip(Drop(s, 1))
    ELSE IF SubSeq(s, Len(s), Len(s)) = " " THEN Strip(SubSeq(s, 1, Len(s) - 1))
    ELSE s

\* urlparse(url).netloc for scheme://host/path
netloc(url) ==
    LET p == Find(url, "://") IN
    IF p = 0 THEN ""
    ELSE LET rest == Drop(url, p + 2)
             q == Find(rest, "/")
         IN IF q = 0 THEN rest ELSE SubSeq(rest, 1, q - 1)

is_subdomain_of(url_netloc, main_domain) ==
    LET md == Lower(ReplaceWww(main_domain))
        nl == Lower(ReplaceWww(url_netloc))
    IN EndsWith(nl, "." \o md) \/ nl = md

(***************************************************************************)
(* Pages                                                                   *)
(***************************************************************************)

\* A parsed page (soup): its <a href> elements in document order, and the
\* match kinds the keyword scan of lines 102-156 finds on it, in order.
\* An anchor is [href |-> string, text |-> string].

RECURSIVE SeqToSet(_)
SeqToSet(s) == IF s = <<>> THEN {} ELSE {Head(s)} \cup SeqToSet(Tail(s))

\* All orders in which a set can be iterated
RECURSIVE Orders(_)
Orders(S) ==
    IF S = {} THEN {<<>>}
    ELSE UNION {{<<x>> \o t : t \in Orders(S \ {x})} : x \in S}

\* urljoin(base, href) for an absolute href and for a root-relative one
urljoin(base, href) ==
    IF Contains(href, "://") THEN href
    ELSE LET p == Find(base, "://") IN
         SubSeq(base, 1, p + 2) \o netloc(base) \o href

category_names == <<"travel", "blog", "resources">>

\* re.search(r'/category/([^/]+)', href).group(1), "" when there is no match
CategorySegment(href) ==
    LET k == Len("/category/")
        Hit(i) == /\ OccursAt(href, i, "/category/")
                  /\ i + k <= Len(href)
                  /\ ~OccursAt(href, i + k, "/")
        hits == {i \in 1..Len(href) : Hit(i)}
    IN IF hits = {} THEN ""
       ELSE LET i == CHOOSE j \in hits : \A h \in hits : j <= h
                rest == Drop(href, i + k - 1)
                q == Find(rest, "/")
            IN IF q = 0 THEN rest ELSE SubSeq(rest, 1, q - 1)

\* line 43: hrefs the category scan passes over
SkippedHref(href) ==
    \/ href = ""
    \/ StartsWith(href, "javascript:")
    \/ StartsWith(href, "#")
    \/ StartsWith(href, "mailto:")
    \/ StartsWith(href, "tel:")

\* lines 46-49: the (name, url) pairs one anchor adds to `categories`
RECURSIVE CanonicalOf(_, _, _, _)
CanonicalOf(href, text, base_url, names) ==
    IF names = <<>> THEN <<>>
    ELSE LET category == Head(names)
             here == IF (Contains(href, category) \/ Contains(text, category))
                        /\ Contains(href, "/category/")
                     THEN <<<<category, urljoin(base_url, href)>>>>
                     ELSE <<>>
         IN here \o CanonicalOf(href, text, base_url, Tail(names))

\* lines 39-49: the list `categories` after the loop over the anchors
RECURSIVE CategoriesOf(_, _)
CategoriesOf(anchors, base_url) ==
    IF anchors = <<>> THEN <<>>
    ELSE LET href == Lower(Strip(Head(anchors).href))
             text == Lower(Strip(Head(anchors).text))
         IN (IF SkippedHref(href) THEN <<>>
             ELSE CanonicalOf(href, text, base_url, category_names))
            \o CategoriesOf(Tail(anchors), base_url)

\* lines 51-55: the set `other_categories` after the loop
OtherCategoriesOf(anchors, base_url) ==
    {<<CategorySegment(Lower(Strip(anchors[i].href))),
       urljoin(base_url, Lower(Strip(anchors[i].href)))>> :
        i \in {j \in 1..Len(anchors) :
                 LET href == Lower(Strip(anchors[j].href)) IN
                 /\ ~SkippedHref(href)
                 /\ Contains(href, "/category/")
                 /\ \A n \in 1..Len(category_names) : ~Contains(href, category_names[n])
                 /\ CategorySegment(href) # ""}}

\* lines 58-62: the predefined names first, each with its first url
RECURSIVE Prioritized(_, _)
Prioritized(categories, names) ==
    IF names = <<>> THEN <<>>
    ELSE LET matched == SelectSeq(categories, LAMBDA c : c[1] = Head(names))
         IN (IF matched # <<>> THEN <<<<Head(names), matched[1][2]>>>> ELSE <<>>)
            \o Prioritized(categories, Tail(names))

\* extract_categories(soup, base_url): the lists it can return.  The other
\* categories are appended by iterating a Python set, in any order.
extract_categories(anchors, base_url) ==
    {Prioritized(CategoriesOf(anchors, base_url), category_names) \o rest :
        rest \in Orders(OtherCategoriesOf(anchors, base_url))}

(***************************************************************************)
(* The inputs: what the user types and what the network returns            *)
(***************************************************************************)

\* a script run starts only while the status feed is shorter than this
MaxStatus == 9

\* and a session with results is resumed while its feed is shorter than this
MaxPausedStatus == 12

\* how many further copies of its first anchor a page can carry
PadCopies == 6

\* st.text_input values
SeedInputs == {"m/", " m/ ", "https://m/"}

\* hrefs found on pages: a category page of the main site, a category page
\* of another site, two more sites
Hrefs == {"https://m/category/travel", "https://x/category/foo", "https://y/",
          "https://z/"}

Anchors == {[href |-> h, text |-> ""] : h \in Hrefs}

\* base, its first anchor repeated n more times in front
Padded(base, n) == [i \in 1..n |-> base[1]] \o base

\* the anchors of a page: none, one, or two different ones of which the first
\* occurs PadCopies + 1 times
AnchorLists ==
    {<<>>} \cup {<<a>> : a \in Anchors}
           \cup {Padded(l, PadCopies) : l \in {k \in Anchors \X Anchors : k[1] # k[2]}}

\* the keyword scan's findings on a page
PageMatches == {<<>>, <<"Keyword in content">>}

\* response.url: the requested url, or where a redirect led
FinalUrls(url) ==
    IF is_subdomain_of(netloc(url), "m") THEN {url} ELSE {url, "https://m/"}

\* session.get(url) and what BeautifulSoup and the matcher make of the body
Responses(url) ==
    {[kind |-> "err"], [kind |-> "nonhtml"]} \cup
    {[kind |-> "html", final_url |-> f, anchors |-> a, matches |-> m] :
        f \in FinalUrls(url), a \in AnchorLists, m \in PageMatches}

InitialUrlAsTyped(url_input) == Strip(url_input)

\* lines 225-227
InitialUrl(url_input) ==
    LET initial_url == Strip(url_input) IN
    IF StartsWith(initial_url, "http://") \/ StartsWith(initial_url, "https://")
    THEN initial_url ELSE "https://" \o initial_url

\* every url and every main_domain a session can hold
Urls == {InitialUrl(i) : i \in SeedInputs} \cup Hrefs \cup {"https://m/"}

MainDomains == {netloc(InitialUrl(i)) : i \in SeedInputs}

\* The string functions above, evaluated once for every argument in use
ExternalTable ==
    [u \in Urls |-> [md \in MainDomains |-> ~is_subdomain_of(netloc(u), md)]]

UrljoinTable == [b \in Urls |-> [h \in Hrefs |-> urljoin(b, h)]]

ResponsesTable == [u \in Urls |-> Responses(u)]

\* the response to the request process_url makes for url: none is made, and
\* none is drawn, when url is in visited (line 74)
ResponsesFor(url, visited) ==
    IF url \in visited THEN {[kind |-> "none"]} ELSE ResponsesTable[url]

CategoriesTable ==
    [a \in AnchorLists |-> [u \in Urls |-> extract_categories(a, u)]]

\* not is_subdomain_of(urlparse(url).netloc, main_domain): lines 96 and 165
IsExternal(url, main_domain) == ExternalTable[url][main_domain]

(***************************************************************************)
(* process_url                                                             *)
(***************************************************************************)

None == <<>>

DepthAllowedOneMore(new_depth) == new_depth <= 3

\* line 169: the depth up to which a link is kept
DepthAllowed(new_depth) == new_depth <= 2

VisitForgotten(visited, url) == visited

\* line 76: visited.add(url)
Visit(visited, url) == visited \cup {url}

\* lines 160-170: the (absolute_url, new_depth) pairs of the page's anchors
RECURSIVE ExtractLinks(_, _, _, _, _)
ExtractLinks(anchors, final_url, depth, main_domain, visited) ==
    IF anchors = <<>> THEN <<>>
    ELSE LET absolute_url == UrljoinTable[final_url][Head(anchors).href]
             is_external_link == IsExternal(absolute_url, main_domain)
             new_depth == IF is_external_link THEN depth + 1 ELSE depth
             rest == ExtractLinks(Tail(anchors), final_url, depth, main_domain, visited)
         IN IF DepthAllowed(new_depth) /\ absolute_url \notin visited
            THEN <<<<absolute_url, new_depth>>>> \o rest
            ELSE rest

\* lines 110-156: one result and one status entry per positive test
ScanResults(final_url, matches) ==
    [i \in 1..Len(matches) |-> <<final_url, matches[i]>>]

ScanStatus(matches) == [i \in 1..Len(matches) |-> "match"]

SkipsExternalNever(final_url, main_domain, depth) == FALSE

SkipsExternalDeeper(final_url, main_domain, depth) ==
    IsExternal(final_url, main_domain) /\ depth > 2

\* line 97: the page is not processed
SkipsExternal(final_url, main_domain, depth) ==
    IsExternal(final_url, main_domain) /\ depth > 1

OnFetchErrorUnlogged(url, visited, results, status_messages) ==
    [links |-> <<>>, soup |-> None, visited |-> Visit(visited, url),
     results |-> results, status |-> status_messages, fetched |-> TRUE]

\* lines 76 and 85-87: the request raised (timeout, connection error, or
\* raise_for_status on a non-2xx status)
OnFetchError(url, visited, results, status_messages) ==
    [links |-> <<>>, soup |-> None, visited |-> Visit(visited, url),
     results |-> results, status |-> Append(status_messages, "error"),
     fetched |-> TRUE]

\* process_url(url, main_domain, visited, results, status_messages, depth) on
\* the response resp of the network: what it returns (links, soup), the
\* collections it mutates, and whether it issued the request.
process_url(url, main_domain, visited, results, status_messages, depth, resp) ==
    IF url \in visited
    THEN [links |-> <<>>, soup |-> None, visited |-> visited, results |-> results,
          status |-> status_messages, fetched |-> FALSE]
    ELSE IF resp.kind = "err"
    THEN OnFetchError(url, visited, results, status_messages)
    ELSE IF resp.kind = "nonhtml"
    THEN [links |-> <<>>, soup |-> None, visited |-> Visit(visited, url),
          results |-> results, status |-> Append(status_messages, "crawled"),
          fetched |-> TRUE]
    ELSE IF SkipsExternal(resp.final_url, main_domain, depth)
    THEN [links |-> <<>>, soup |-> None, visited |-> Visit(visited, url),
          results |-> results,
          status |-> status_messages \o <<"crawled", "skip_external">>,
          fetched |-> TRUE]
    ELSE [links |-> ExtractLinks(resp.anchors, resp.final_url, depth, main_domain,
                                 Visit(visited, url)),
          soup |-> <<resp.anchors>>,
          visited |-> Visit(visited, url),
          results |-> results \o ScanResults(resp.final_url, resp.matches),
          status |-> status_messages \o <<"crawled">> \o ScanStatus(resp.matches),
          fetched |-> TRUE]

(***************************************************************************)
(* The session and the script run                                          *)
(***************************************************************************)

VARIABLES
    crawl_data,     \* st.session_state.crawl_data
    pc,             \* where the script run is: "idle" between runs
    ev,             \* the button under the results pressed for the current run
    category_name,  \* local of main(), set at line 315
    hist,           \* history of the session: requests, dequeues, extractions
    last,           \* the entry the last loop iteration dequeued
    moved,          \* a phase-end transition was taken in this run
    call,           \* the arguments of a function called on its own
    returned        \* what that call returned

vars == <<crawl_data, pc, ev, category_name, hist, last, moved, call, returned>>

max_pages == 8

\* lines 178-190 (and 201-213, 420-432)
InitialData ==
    [running |-> FALSE, queue |-> <<>>, visited |-> {}, results |-> <<>>,
     status |-> <<>>, main_domain |-> "", categories |-> <<>>,
     current_category |-> None, pages_crawled |-> 0]

\* requests: the (url, depth) of every request issued; dequeued: the urls
\* taken from the queue; dequeues: how many entries were taken; extractions:
\* how often extract_categories ran; plain: no page served so far carried a
\* /category/ href or a keyword
InitialHist ==
    [requests |-> <<>>, dequeued |-> {}, dequeues |-> 0, extractions |-> 0,
     plain |-> TRUE]

NoEntry == [url |-> "", depth |-> 0, fetched |-> FALSE, kind |-> "none",
            final_url |-> ""]

Init ==
    /\ crawl_data = InitialData
    /\ pc = "idle"
    /\ ev = "none"
    /\ category_name = ""
    /\ hist = InitialHist
    /\ last = NoEntry
    /\ moved = FALSE
    /\ call = None
    /\ returned = None

\* lines 225-242
NewSession(url_input) ==
    LET initial_url == InitialUrl(url_input)
    IN [running |-> TRUE, queue |-> <<<<initial_url, 0>>>>, visited |-> {},
        results |-> <<>>, status |-> <<"start">>, main_domain |-> netloc(initial_url),
        categories |-> <<>>, current_category |-> None, pages_crawled |-> 0]

\* lines 221-242: the Start / Pause button
StartButton(d, url_input) ==
    IF ~d.running /\ d.queue = <<>>
    THEN NewSession(url_input)
    ELSE [d EXCEPT !.running = ~d.running]

EndOfScriptClearsResults(d, e) ==
    IF d.results # <<>> /\ e = "continue"
    THEN [d EXCEPT !.running = TRUE, !.results = <<>>]
    ELSE IF d.results # <<>> /\ e = "new" THEN InitialData
    ELSE d

\* lines 389, 415-432: the buttons under the results
EndOfScript(d, e) ==
    IF d.results # <<>> /\ e = "continue" THEN [d EXCEPT !.running = TRUE]
    ELSE IF d.results # <<>> /\ e = "new" THEN InitialData
    ELSE d

\* the run ends: the rest of the script (lines 375-432) on session d
Finish(d, h) ==
    /\ crawl_data' = EndOfScript(d, ev)
    /\ hist' = IF d.results # <<>> /\ ev = "new" THEN InitialHist ELSE h
    /\ pc' = "idle"
    /\ ev' = "none"
    /\ category_name' = ""
    /\ moved' = FALSE

Events == {"none", "start", "reset", "continue", "new"}

\* A widget event starts a script run: lines 177-248 and 313-319
Run(e, url_input) ==
    /\ pc = "idle"
    /\ UNCHANGED <<call, returned>>
    /\ Len(crawl_data.status)
          < (IF crawl_data.results # <<>> THEN MaxPausedStatus ELSE MaxStatus)
    /\ e \in {"continue", "new"} => crawl_data.results # <<>>
    /\ LET d0 == IF e = "reset" THEN InitialData ELSE crawl_data
           fresh == e = "start" /\ ~d0.running /\ d0.queue = <<>>
           d1 == IF e = "start" THEN StartButton(d0, url_input) ELSE d0
           h1 == IF e = "reset" \/ fresh THEN InitialHist ELSE hist
       IN /\ moved' = FALSE
          /\ last' = NoEntry
          /\ IF ~d1.running
             THEN /\ crawl_data' = EndOfScript(d1, e)
                  /\ hist' = IF d1.results # <<>> /\ e = "new" THEN InitialHist ELSE h1
                  /\ pc' = "idle"
                  /\ UNCHANGED <<ev, category_name>>
             ELSE IF d1.current_category = None
             THEN /\ crawl_data' = d1
                  /\ hist' = h1
                  /\ pc' = "main"
                  /\ ev' = IF e \in {"continue", "new"} THEN e ELSE "none"
                  /\ UNCHANGED category_name
             ELSE /\ category_name' = d1.current_category[1]
                  /\ ev' = IF e \in {"continue", "new"} THEN e ELSE "none"
                  /\ crawl_data' =
                        IF d1.pages_crawled = 0
                        THEN [d1 EXCEPT !.status = Append(@, "category_start"),
                                        !.queue = <<<<d1.current_category[2], 0>>>>]
                        ELSE d1
                  /\ hist' = h1
                  /\ pc' = "category"


LoopGoesOnOneMore(d) == d.running /\ d.pages_crawled <= max_pages

\* lines 251-252 and 321-322: the loop condition
LoopGoesOn(d) == d.running /\ d.pages_crawled < max_pages

DequeuedNotRemoved(d, r) ==
    [d EXCEPT !.visited = r.visited, !.results = r.results,
              !.status = r.status, !.pages_crawled = @ + 1]

\* lines 260-270 and 330-340: popleft, process_url, pages_crawled += 1
Dequeued(d, r) ==
    [d EXCEPT !.queue = Tail(@), !.visited = r.visited, !.results = r.results,
              !.status = r.status, !.pages_crawled = @ + 1]

\* lines 283-286 and 342-345
Enqueued(d, links) ==
    [d EXCEPT !.queue = @ \o SelectSeq(links, LAMBDA l : l[1] \notin d.visited)]

\* line 272: the page whose categories are extracted
ExtractsCategories(d, soup) == d.pages_crawled = 1 /\ soup # None

WithCategoriesUnlogged(d, homepage_categories) ==
    [d EXCEPT !.categories = homepage_categories]

\* lines 274-279
WithCategories(d, homepage_categories) ==
    [d EXCEPT !.categories = homepage_categories,
              !.status = IF homepage_categories # <<>>
                         THEN Append(@, "categories") ELSE @]

\* lines 289 and 348
MatchesFound(d) == d.results # <<>>

PausedStillRunning(d) == [d EXCEPT !.status = Append(@, "pause")]

\* lines 290-293 and 349-352
Paused(d) == [d EXCEPT !.status = Append(@, "pause"), !.running = FALSE]

\* the history after the iteration that dequeued (url, depth)
Recorded(h, url, depth, r, resp, extracted) ==
    [requests |-> IF r.fetched THEN Append(h.requests, <<url, depth>>) ELSE h.requests,
     dequeued |-> h.dequeued \cup {url},
     dequeues |-> h.dequeues + 1,
     extractions |-> IF extracted THEN h.extractions + 1 ELSE h.extractions,
     plain |-> h.plain /\ (resp.kind = "html" =>
                    /\ resp.matches = <<>>
                    /\ \A i \in 1..Len(resp.anchors) :
                          ~Contains(resp.anchors[i].href, "/category/"))]

\* the entry an iteration dequeued and the response to its request
Entry(url, depth, r, resp) ==
    [url |-> url, depth |-> depth, fetched |-> r.fetched,
     kind |-> IF r.fetched THEN resp.kind ELSE "none",
     final_url |-> IF r.fetched /\ resp.kind = "html" THEN resp.final_url ELSE ""]

\* One pass of the main-domain loop up to line 294: lines 251-294
MainStep ==
    /\ pc = "main"
    /\ UNCHANGED <<call, returned>>
    /\ LET d == crawl_data IN
       IF ~LoopGoesOn(d)
       THEN Finish(d, hist) /\ UNCHANGED last
       ELSE IF d.queue = <<>>
       THEN Finish([d EXCEPT !.status = Append(@, "drained")], hist) /\ UNCHANGED last
       ELSE \E resp \in ResponsesFor(Head(d.queue)[1], d.visited) :
            LET url == Head(d.queue)[1]
                depth == Head(d.queue)[2]
                r == process_url(url, d.main_domain, d.visited, d.results, d.status,
                                 depth, resp)
                d2 == Dequeued(d, r)
                extracts == ExtractsCategories(d2, r.soup)
            IN \E cats \in (IF extracts THEN CategoriesTable[r.soup[1]][url]
                            ELSE {d2.categories}) :
               LET d3 == IF extracts THEN WithCategories(d2, cats) ELSE d2
                   d4 == Enqueued(d3, r.links)
                   h == Recorded(hist, url, depth, r, resp, extracts)
               IN /\ last' = Entry(url, depth, r, resp)
                  /\ IF MatchesFound(d4)
                     THEN Finish(Paused(d4), h)
                     ELSE /\ crawl_data' = d4
                          /\ hist' = h
                          /\ pc' = "main_end"
                          /\ UNCHANGED <<ev, category_name, moved>>

\* lines 300-312: the session after the main-domain phase reached its budget
AtMainBudget(d) ==
    LET d1 == [d EXCEPT !.status = Append(@, "max_pages")] IN
    IF d1.results = <<>> /\ d1.categories # <<>>
    THEN [d1 EXCEPT !.current_category = d1.categories[1],
                    !.status = Append(@, "moving"),
                    !.queue = <<<<d1.categories[1][2], 0>>>>,
                    !.pages_crawled = 0]
    ELSE IF d1.results = <<>> /\ d1.categories = <<>>
    THEN [d1 EXCEPT !.status = Append(@, "completed"), !.running = FALSE]
    ELSE d1

\* lines 299-312: the end of the main-domain phase
MainPhaseEnd ==
    /\ pc = "main_end"
    /\ UNCHANGED <<call, returned>>
    /\ LET d == crawl_data IN
       IF d.pages_crawled >= max_pages
       THEN /\ crawl_data' = AtMainBudget(d)
            /\ moved' = (moved \/ (d.results = <<>> /\ d.categories # <<>>))
       ELSE UNCHANGED <<crawl_data, moved>>
    /\ pc' = "main"
    /\ UNCHANGED <<ev, category_name, hist, last>>

\* One pass of the category loop up to line 353: lines 321-353
CategoryStep ==
    /\ pc = "category"
    /\ UNCHANGED <<call, returned>>
    /\ LET d == crawl_data IN
       IF ~LoopGoesOn(d)
       THEN Finish(d, hist) /\ UNCHANGED last
       ELSE IF d.queue = <<>>
       THEN Finish([d EXCEPT !.status = Append(@, "drained")], hist) /\ UNCHANGED last
       ELSE \E resp \in ResponsesFor(Head(d.queue)[1], d.visited) :
            LET url == Head(d.queue)[1]
                depth == Head(d.queue)[2]
                r == process_url(url, d.main_domain, d.visited, d.results, d.status,
                                 depth, resp)
                d4 == Enqueued(Dequeued(d, r), r.links)
                h == Recorded(hist, url, depth, r, resp, FALSE)
            IN /\ last' = Entry(url, depth, r, resp)
               /\ IF MatchesFound(d4)
                  THEN Finish(Paused(d4), h)
                  ELSE /\ crawl_data' = d4
                       /\ hist' = h
                       /\ pc' = "category_end"
                       /\ UNCHANGED <<ev, category_name, moved>>

\* line 361: next((i for i, cat in enumerate(categories) if cat[0] == name), -1),
\* counted from 1 here, so 0 when there is none
CurrentIdx(categories, name) ==
    LET found == {i \in 1..Len(categories) : categories[i][1] = name}
    IN IF found = {} THEN 0 ELSE CHOOSE i \in found : \A j \in found : i <= j

\* lines 358-373: the end of a category phase
CategoryPhaseEnd ==
    /\ pc = "category_end"
    /\ UNCHANGED <<call, returned>>
    /\ LET d == crawl_data IN
       IF d.pages_crawled >= max_pages
       THEN LET d1 == [d EXCEPT !.status = Append(@, "max_pages")]
                current_idx == CurrentIdx(d1.categories, category_name)
            IN IF current_idx < Len(d1.categories)
               THEN /\ crawl_data' =
                         [d1 EXCEPT !.current_category = d1.categories[current_idx + 1],
                                    !.status = Append(@, "moving"),
                                    !.queue = <<<<d1.categories[current_idx + 1][2], 0>>>>,
                                    !.pages_crawled = 0]
                    /\ moved' = TRUE
               ELSE /\ crawl_data' = [d1 EXCEPT !.status = Append(@, "completed"),
                                                !.running = FALSE]
                    /\ UNCHANGED moved
       ELSE UNCHANGED <<crawl_data, moved>>
    /\ pc' = "category"
    /\ UNCHANGED <<ev, category_name, hist, last>>

\* A widget event while the loop runs: Streamlit stops the script at its next
\* st.* call, which inside the loops is progress_bar.progress (lines 297, 356)
Interrupt ==
    /\ pc \in {"main_end", "category_end"}
    /\ UNCHANGED <<call, returned>>
    /\ pc' = "idle"
    /\ ev' = "none"
    /\ category_name' = ""
    /\ moved' = FALSE
    /\ UNCHANGED <<crawl_data, hist, last>>

Next ==
    \/ \E e \in Events, url_input \in SeedInputs : Run(e, url_input)
    \/ MainStep
    \/ MainPhaseEnd
    \/ CategoryStep
    \/ CategoryPhaseEnd
    \/ Interrupt

Spec == Init /\ [][Next]_vars

(***************************************************************************)
(* extract_categories called on its own, and the fallback on its result   *)
(***************************************************************************)

\* how many anchors a first page carries at most
MaxAnchors == 3

\* the anchors of first pages: category links by href and by text, relative
\* and absolute, in lower and in mixed case, a fragment, a plain link
ExtractAnchors ==
    {[href |-> "/category/travel", text |-> ""],
     [href |-> "https://m/category/Travel", text |-> ""],
     [href |-> "https://m/category/blog", text |-> ""],
     [href |-> "https://m/category/x", text |-> "Travel"],
     [href |-> "https://m/category/foo", text |-> ""],
     [href |-> " https://m/category/resources", text |-> ""],
     [href |-> "#/category/blog", text |-> ""],
     [href |-> "https://m/travel", text |-> ""]}

ExtractSoups == UNION {[1..n -> ExtractAnchors] : n \in 0..MaxAnchors}

InitExtract ==
    /\ call \in {[soup |-> a, base_url |-> "https://m/"] : a \in ExtractSoups}
    /\ returned = None
    /\ pc = "called"
    /\ crawl_data = InitialData
    /\ ev = "none"
    /\ category_name = ""
    /\ hist = InitialHist
    /\ last = NoEntry
    /\ moved = FALSE

\* line 274: homepage_categories = extract_categories(soup, url)
ExtractCategories ==
    /\ pc = "called"
    /\ returned' \in extract_categories(call.soup, call.base_url)
    /\ pc' = "returned"
    /\ UNCHANGED <<crawl_data, ev, category_name, hist, last, moved, call>>

\* lines 275 and 299-312 on the session of that first page, when its
\* main-domain phase reaches the budget without a match
EnterFirstCategory ==
    /\ pc = "returned"
    /\ crawl_data' = AtMainBudget([NewSession(call.base_url) EXCEPT
                                     !.categories = returned,
                                     !.visited = {call.base_url},
                                     !.queue = <<>>,
                                     !.pages_crawled = max_pages])
    /\ pc' = "entered"
    /\ UNCHANGED <<ev, category_name, hist, last, moved, call, returned>>

NextExtract == ExtractCategories \/ EnterFirstCategory

SpecExtract == InitExtract /\ [][NextExtract]_vars

(***************************************************************************)
(* is_subdomain_of called on its own                                       *)
(***************************************************************************)

\* how many pieces a host is made of at most
MaxPieces == 3

\* the pieces of hosts
HostPieces == {"www.", "Www.", "m", "x", "."}

RECURSIVE HostsOf(_)
HostsOf(n) ==
    IF n = 0 THEN {""}
    ELSE HostsOf(n - 1) \cup {h \o t : h \in HostsOf(n - 1), t \in HostPieces}

\* the netlocs of urls and of seeds
Hosts == HostsOf(MaxPieces)

InitSameSite ==
    /\ call \in {[url_netloc |-> a, main_domain |-> b] : a \in Hosts, b \in Hosts}
    /\ returned = None
    /\ pc = "asked"
    /\ crawl_data = InitialData
    /\ ev = "none"
    /\ category_name = ""
    /\ hist = InitialHist
    /\ last = NoEntry
    /\ moved = FALSE

\* lines 96 and 165: is_subdomain_of(parsed.netloc, main_domain)
Classify ==
    /\ pc = "asked"
    /\ returned' = is_subdomain_of(call.url_netloc, call.main_domain)
    /\ pc' = "classified"
    /\ UNCHANGED <<crawl_data, ev, category_name, hist, last, moved, call>>

NextSameSite == Classify

SpecSameSite == InitSameSite /\ [][NextSameSite]_vars

(***************************************************************************)
(* Properties                                                              *)
(***************************************************************************)

\* the step takes an entry from the queue (and the session goes on)
Dequeues == hist'.dequeues = hist.dequeues + 1

\* C1: pause on match.  A loop pass that leaves the results non-empty ends
\* the script run with running = FALSE (unless the Continue button, pressed
\* for this run, sets it again at line 417); entries are dequeued only while
\* running, and running turns TRUE only by a button, never inside the loops.
C1_PauseOnMatch ==
    [][/\ Dequeues => crawl_data.running
       /\ (Dequeues /\ crawl_data'.results # <<>>) =>
             /\ pc' = "idle"
             /\ crawl_data'.running => ev = "continue"
       /\ (~crawl_data.running /\ crawl_data'.running) => pc = "idle"]_vars

\* a run paused on a match with entries still in the queue
C1_Witness ==
    /\ pc = "idle"
    /\ ~crawl_data.running
    /\ crawl_data.results # <<>>
    /\ crawl_data.queue # <<>>
    /\ last.fetched

\* the frontier is empty at the head of a loop (lines 254 and 324)
Drained == pc \in {"main", "category"} /\ LoopGoesOn(crawl_data) /\ crawl_data.queue = <<>>

\* the page counter has reached the budget at the phase-end check (lines 299
\* and 358), and the check is made
BudgetReached ==
    /\ pc \in {"main_end", "category_end"}
    /\ crawl_data.pages_crawled >= max_pages
    /\ pc' # "idle"

\* the session is reseeded for category c
EntersCategory(c) ==
    /\ crawl_data'.current_category = c
    /\ crawl_data'.pages_crawled = 0
    /\ crawl_data'.queue = <<<<c[2], 0>>>>

\* C2: fallback.  When the main-domain phase ends (frontier empty, or page
\* counter at the budget) with no results and a non-empty category list, the
\* session moves to the first category: page counter 0, frontier exactly
\* (url of category 0, depth 0).
C2_Fallback ==
    [][(/\ crawl_data.current_category = None
        /\ Drained \/ BudgetReached
        /\ crawl_data.results = <<>>
        /\ crawl_data.categories # <<>>)
       => EntersCategory(crawl_data.categories[1])]_vars

\* C3: scenario A.  On a site without category links and keywords, whose
\* pages are served as HTML, once a script run has found the frontier
\* drained and returned, the session is completed: it is no longer running.
C3_ScenarioACompletes ==
    (/\ pc = "idle"
     /\ hist.plain
     /\ last.kind = "html"
     /\ crawl_data.status # <<>>
     /\ crawl_data.status[Len(crawl_data.status)] = "drained")
    => ~crawl_data.running

\* C4: category progression.  When the phase of category i ends with no
\* results, the session moves to category i+1 if there is one, and is
\* completed (not running) otherwise.
C4_Progression ==
    [][\A i \in 1..Len(crawl_data.categories) :
        (/\ crawl_data.current_category = crawl_data.categories[i]
         /\ Drained \/ BudgetReached
         /\ crawl_data.results = <<>>)
        => IF i + 1 <= Len(crawl_data.categories)
           THEN EntersCategory(crawl_data.categories[i + 1])
           ELSE ~crawl_data'.running]_vars

\* C5: no double processing.  The visited set is the set of urls dequeued
\* so far, no url is requested twice in a session, and every requested url
\* is in the visited set.
C5_NoDoubleProcessing ==
    /\ crawl_data.visited = hist.dequeued
    /\ \A i, j \in 1..Len(hist.requests) :
          i # j => hist.requests[i][1] # hist.requests[j][1]
    /\ \A i \in 1..Len(hist.requests) : hist.requests[i][1] \in crawl_data.visited

\* a url was dequeued again, in a category phase, after a pause
C5_Witness ==
    /\ hist.dequeues > Cardinality(hist.dequeued)
    /\ Len(hist.requests) >= 2
    /\ crawl_data.current_category # None
    /\ crawl_data.results # <<>>

\* C6: every entry in the frontier has a depth in 0..2.
C6_DepthBound ==
    \A i \in 1..Len(crawl_data.queue) : crawl_data.queue[i][2] \in 0..2

\* a link found on a page of depth 2 is in the frontier
C6_Witness ==
    /\ last.depth = 2
    /\ last.kind = "html"
    /\ \E i \in 1..Len(crawl_data.queue) : crawl_data.queue[i][2] = 2

\* C7 as stated: no request is issued for an entry whose url is external to
\* the main site and whose depth is greater than 1.
C7_NeverRequested ==
    \A i \in 1..Len(hist.requests) :
        ~(/\ hist.requests[i][2] > 1
          /\ IsExternal(hist.requests[i][1], crawl_data.main_domain))

\* C7 as amended: an entry of depth greater than 1 is requested like any
\* other; when the response is HTML and its final url is external to the
\* main site, the page is logged as skipped and discarded: it adds no result,
\* no frontier entry and no categories.
C7_SkippedNotScanned ==
    [][(/\ Dequeues
        /\ last'.kind = "html"
        /\ last'.depth > 1
        /\ IsExternal(last'.final_url, crawl_data.main_domain))
       => /\ last'.fetched
          /\ hist'.requests = Append(hist.requests, <<last'.url, last'.depth>>)
          /\ crawl_data'.results = crawl_data.results
          /\ crawl_data'.queue = Tail(crawl_data.queue)
          /\ crawl_data'.categories = crawl_data.categories
          /\ Len(crawl_data'.status) >= Len(crawl_data.status) + 2
          /\ crawl_data'.status[Len(crawl_data.status) + 2] = "skip_external"]_vars

\* an external page of depth 2 was requested and skipped
C7_Witness ==
    /\ last.kind = "html"
    /\ last.depth > 1
    /\ last.fetched
    /\ IsExternal(last.final_url, crawl_data.main_domain)
    /\ IsExternal(last.url, crawl_data.main_domain)

\* C8: extract_categories runs at most once in a session.
C8_ExtractedOnce == hist.extractions <= 1

\* C9: after a phase-end transition in a script run, that run dequeues
\* nothing more.
C9_RunEndsAtPhaseEnd == [][moved => ~Dequeues]_vars

\* C10: the page counter stays within 0..8 and grows by exactly one with
\* every entry dequeued.
C10_PageCounter ==
    /\ [](crawl_data.pages_crawled \in 0..max_pages)
    /\ [][Dequeues => crawl_data'.pages_crawled = crawl_data.pages_crawled + 1]_vars

\* the counter is at the budget after entries that were already visited
C10_Witness ==
    /\ crawl_data.pages_crawled = max_pages
    /\ hist.dequeues > Cardinality(hist.dequeued)
    /\ last.kind = "none"

\* the step dequeued an entry whose request failed
FetchFails == Dequeues /\ last'.kind = "err"

\* what a failed fetch leaves behind whatever the session: the url visited,
\* the feed extended by a failure entry, no result, no frontier entry and no
\* category added
FailureAbsorbed ==
    /\ last'.url \in crawl_data'.visited
    /\ Len(crawl_data'.status) > Len(crawl_data.status)
    /\ SubSeq(crawl_data'.status, 1, Len(crawl_data.status) + 1)
          = Append(crawl_data.status, "error")
    /\ crawl_data'.results = crawl_data.results
    /\ crawl_data'.queue = Tail(crawl_data.queue)
    /\ crawl_data'.categories = crawl_data.categories

\* C11 as stated: a fetch failure is non-fatal.  The url is visited, a
\* failure entry is appended to the feed, no result and no frontier entry is
\* added, the category list is unchanged, the session stays running and the
\* loop goes on.
C11_FailureNonFatal ==
    [][FetchFails =>
         /\ FailureAbsorbed
         /\ crawl_data'.running
         /\ pc' \in {"main_end", "category_end"}]_vars

\* C11 as amended: a fetch failure is absorbed as stated, and with an empty
\* result list the session stays running and the loop goes on.  With results
\* already there (a resumed session) the pass ends the run with the pause of
\* lines 289-294 and 348-353, like every other pass; a New Crawl press
\* handled at the end of that run clears the session.
C11_FailureAbsorbed ==
    [][FetchFails =>
         IF crawl_data.results = <<>>
         THEN /\ FailureAbsorbed
              /\ crawl_data'.status = Append(crawl_data.status, "error")
              /\ crawl_data'.running
              /\ pc' \in {"main_end", "category_end"}
         ELSE /\ pc' = "idle"
              /\ IF ev = "new" THEN crawl_data' = InitialData
                 ELSE /\ FailureAbsorbed
                      /\ crawl_data'.status = crawl_data.status \o <<"error", "pause">>
                      /\ crawl_data'.running <=> ev = "continue"]_vars

\* a request failed, the session is running and the loop goes on with
\* entries left in the frontier
C11_Witness ==
    /\ last.kind = "err"
    /\ pc \in {"main_end", "category_end"}
    /\ crawl_data.running
    /\ crawl_data.queue # <<>>
    /\ last.url \in crawl_data.visited

\* the session is paused: not running, between runs, with results to review
IsPaused == pc = "idle" /\ ~crawl_data.running /\ crawl_data.results # <<>>

\* C12: resume from Paused changes nothing but the running flag.  Every step
\* that takes a paused session back to running (the Start button of lines
\* 221-242, the Continue button of lines 415-417) leaves the frontier, the
\* visited set, the results, the categories, the current category and the
\* page counter as they were, whatever the frontier holds.
C12_ResumeFrame ==
    [][(IsPaused /\ crawl_data'.running)
       => crawl_data' = [crawl_data EXCEPT !.running = TRUE]]_vars

\* the session is completed: the last entry of its feed is the completion
\* message of line 311 or 372
IsCompleted ==
    /\ crawl_data.status # <<>>
    /\ crawl_data.status[Len(crawl_data.status)] = "completed"

\* the step replaces the session: Stop & Reset, New Crawl, or a new start
Clears ==
    \/ crawl_data' = InitialData
    \/ \E url_input \in SeedInputs : crawl_data' = NewSession(url_input)

\* C13: Completed is terminal.  Unless the step clears the session, a
\* completed session dequeues nothing, issues no request, gains no result
\* and is not running afterwards.
C13_CompletedTerminal ==
    [][(IsCompleted /\ ~Clears)
       => /\ ~Dequeues
          /\ hist'.requests = hist.requests
          /\ crawl_data'.results = crawl_data.results
          /\ ~crawl_data'.running]_vars

\* the seed as the claim normalizes it: trimmed, and prefixed with the
\* default scheme when it carries none
NormalizedSeed(seed) ==
    LET t == Strip(seed) IN IF Contains(t, "://") THEN t ELSE "https://" \o t

\* C14: start from Idle.  The step that takes the idle session (the initial
\* one, or the one a reset left) to another one is a start: the session is
\* then running in the main-domain phase with the frontier exactly
\* (normalized seed, 0), nothing visited, no results, no categories, no
\* current category and the page counter at 0.
C14_StartFromIdle ==
    [][(crawl_data = InitialData /\ crawl_data' # InitialData)
       => /\ pc' = "main"
          /\ crawl_data'.running
          /\ \E seed \in SeedInputs :
                crawl_data'.queue = <<<<NormalizedSeed(seed), 0>>>>
          /\ crawl_data'.visited = {}
          /\ crawl_data'.results = <<>>
          /\ crawl_data'.categories = <<>>
          /\ crawl_data'.current_category = None
          /\ crawl_data'.pages_crawled = 0]_vars

\* a session just started from the idle one
C14_Witness ==
    /\ pc = "main"
    /\ crawl_data.running
    /\ crawl_data.queue = <<<<"https://m/", 0>>>>
    /\ crawl_data.status = <<"start">>
    /\ crawl_data.visited = {}
    /\ crawl_data.pages_crawled = 0
    /\ hist = InitialHist

\* the entries the step appends to the feed
Appended ==
    SubSeq(crawl_data'.status, Len(crawl_data.status) + 1, Len(crawl_data'.status))

\* the feed of the session is only extended
AppendOnly ==
    /\ Len(crawl_data'.status) >= Len(crawl_data.status)
    /\ SubSeq(crawl_data'.status, 1, Len(crawl_data.status)) = crawl_data.status

\* how many entries of seq carry one of the tags
Count(seq, tags) == Cardinality({i \in 1..Len(seq) : seq[i] \in tags})

TransitionTags == {"pause", "moving", "completed", "category_start"}

\* the entries appended for requests, for results and for discovered
\* categories, one each
EventsLogged ==
    /\ AppendOnly
    /\ Count(Appended, {"crawled", "error"})
          = IF hist'.requests # hist.requests THEN 1 ELSE 0
    /\ Count(Appended, {"match"}) = Len(crawl_data'.results) - Len(crawl_data.results)
    /\ Count(Appended, {"categories"})
          = IF hist'.extractions # hist.extractions /\ crawl_data'.categories # <<>>
            THEN 1 ELSE 0

\* the phase of the session changes: it starts or stops running, or its
\* current category changes
PhaseChanges ==
    \/ crawl_data'.running # crawl_data.running
    \/ crawl_data'.current_category # crawl_data.current_category

\* a transition made by a loop: the pause after a pass with results, and the
\* fallback or the completion at the budget
LoopTransition ==
    \/ Dequeues /\ crawl_data'.results # <<>>
    \/ BudgetReached

\* C15 as stated: within a session every request (success or failure),
\* every match, every category discovery and every phase transition appends
\* exactly one entry to the feed, and the feed is append-only.
C15_OneEntryPerEvent ==
    [][~Clears =>
         /\ EventsLogged
         /\ Count(Appended, TransitionTags) = IF PhaseChanges THEN 1 ELSE 0]_vars

\* C15 as amended: as stated for requests, matches and category discoveries;
\* of the phase transitions, those a loop makes (pause, fallback,
\* completion) append exactly one entry, and a step between runs, where the
\* buttons pause and resume, appends none.
C15_FeedAccounting ==
    [][~Clears =>
         /\ EventsLogged
         /\ Count(Appended, TransitionTags) = IF LoopTransition THEN 1 ELSE 0
         /\ (pc = "idle" /\ PhaseChanges) => Appended = <<>>]_vars

\* a session that logged requests, a category discovery, a fallback, a match
\* and the pause
C15_Witness ==
    /\ pc = "idle"
    /\ ~crawl_data.running
    /\ crawl_data.results # <<>>
    /\ \A t \in {"crawled", "categories", "moving", "match", "pause"} :
          Count(crawl_data.status, {t}) >= 1

\* the anchor is a category link that mentions the name, in its href or in
\* its text, whatever the case
Mentions(a, name) ==
    LET href == Lower(Strip(a.href))
        text == Lower(Strip(a.text))
    IN /\ ~SkippedHref(href)
       /\ Contains(href, "/category/")
       /\ Contains(href, name) \/ Contains(text, name)

Found(name) == \E i \in 1..Len(call.soup) : Mentions(call.soup[i], name)

\* the url of the first anchor of the page that mentions the name
FirstSeen(name) ==
    LET i == CHOOSE j \in 1..Len(call.soup) :
                /\ Mentions(call.soup[j], name)
                /\ \A k \in 1..(j - 1) : ~Mentions(call.soup[k], name)
    IN urljoin(call.base_url, Strip(call.soup[i].href))

\* C16: the category list starts with the canonical names found on the
\* page, in the order travel, blog, resources, each once and with the first
\* url seen for it; every other category comes after them; and when travel
\* and blog are both found the fallback enters travel with that url.
C16_CategoryList ==
    pc \in {"returned", "entered"} =>
        LET found == SelectSeq(category_names, Found)
        IN /\ Len(returned) >= Len(found)
           /\ \A i \in 1..Len(found) :
                 returned[i] = <<found[i], FirstSeen(found[i])>>
           /\ \A i \in (Len(found) + 1)..Len(returned) :
                 returned[i][1] \notin SeqToSet(category_names)
           /\ (pc = "entered" /\ Found("travel") /\ Found("blog"))
                 => /\ crawl_data.current_category = <<"travel", FirstSeen("travel")>>
                    /\ crawl_data.queue = <<<<FirstSeen("travel"), 0>>>>

\* the host without a leading "www."
WithoutLeadingWww(host) == IF StartsWith(host, "www.") THEN Drop(host, 4) ELSE host

\* the reference: lower-case both hosts, strip a leading "www." from each,
\* then the host is the main host or ends with "." and the main host
SameSiteReference(hostA, mainHost) ==
    LET a == WithoutLeadingWww(Lower(hostA))
        m == WithoutLeadingWww(Lower(mainHost))
    IN a = m \/ EndsWith(a, "." \o m)

\* C17: the classifier returns what the reference returns, for every pair of
\* hosts.
C17_SameSite ==
    pc = "classified" =>
        returned = SameSiteReference(call.url_netloc, call.main_domain)

\* how many steps a run can still take while no new url is visited: a pass
\* takes an entry from the frontier and adds none, and a fallback leaves one
\* entry behind, so the budget cannot be reached a second time
StepsLeft ==
    LET q == Len(crawl_data.queue)
        left == max_pages - crawl_data.pages_crawled
        AtHead == IF ~LoopGoesOn(crawl_data) THEN 1
                  ELSE IF q >= left THEN 2 * left + 3 ELSE 2 * q + 1
    IN CASE pc \in {"main", "category"} -> AtHead
         [] pc \in {"main_end", "category_end"} ->
                IF crawl_data.pages_crawled >= max_pages THEN 4 ELSE 1 + AtHead
         [] OTHER -> 0

\* the urls of the site not visited yet
Unvisited == Cardinality(Urls \ crawl_data.visited)

\* the variant of the loops
Variant == Unvisited * (2 * max_pages + 4) + StepsLeft

\* C18: every run terminates.  The variant is a natural number and every
\* step of a run that does not end it makes the variant smaller, the steps
\* that reset the page counter and reseed the frontier included; so a run
\* on a site of finitely many urls takes finitely many steps.
C18_RunTerminates ==
    [][(pc # "idle" /\ pc' # "idle") => (Variant' < Variant /\ Variant' >= 0)]_vars

\* a loop went on after a fallback reset the counter and reseeded the
\* frontier inside it
C18_Witness ==
    /\ moved
    /\ pc \in {"main_end", "category_end"}
    /\ crawl_data.pages_crawled >= 1
    /\ crawl_data.current_category # None

\* the step takes a fallback: it enters a category (lines 303-309, 364-370)
Falls == ~Clears /\ Count(Appended, {"moving"}) # 0

\* C19: the categories are entered in list order, each at most once.  A
\* fallback taken while a category is current enters a category further down
\* the list, and does not reseed the frontier with the url of the current
\* one.
C19_EnteredInOrder ==
    [][(Falls /\ crawl_data.current_category # None)
       => /\ CurrentIdx(crawl_data'.categories, crawl_data'.current_category[1])
               > CurrentIdx(crawl_data.categories, crawl_data.current_category[1])
          /\ crawl_data'.queue # <<<<crawl_data.current_category[2], 0>>>>]_vars

\* C20: once there are results, no phase-end transition is taken.  Until the
\* session is cleared the results stay, the current category does not
\* change, the page counter is not reset, the frontier is not reseeded, no
\* fallback or completion is logged and the session is never completed,
\* also when a resumed run finds the frontier empty or the counter at 8.
C20_NoFallbackWithResults ==
    /\ [](crawl_data.results # <<>> => ~IsCompleted)
    /\ [][(crawl_data.results # <<>> /\ ~Clears)
          => /\ crawl_data'.results # <<>>
             /\ crawl_data'.current_category = crawl_data.current_category
             /\ crawl_data'.categories = crawl_data.categories
             /\ crawl_data'.pages_crawled >= crawl_data.pages_crawled
             /\ Count(Appended, {"moving", "completed", "max_pages"}) = 0
             /\ \/ crawl_data'.queue = crawl_data.queue
                \/ /\ Dequeues
                   /\ Len(crawl_data'.queue) >= Len(crawl_data.queue) - 1
                   /\ SubSeq(crawl_data'.queue, 1, Len(crawl_data.queue) - 1)
                         = Tail(crawl_data.queue)]_vars

\* a resumed run took the page counter to the budget: its pass dequeued an
\* entry that was visited before, with the results found earlier
C20_Witness ==
    /\ pc = "idle"
    /\ crawl_data.results # <<>>
    /\ crawl_data.pages_crawled = max_pages
    /\ last.url # ""
    /\ last.kind = "none"

\* the step dequeued a page and something came of its content: a result, a
\* frontier entry or the category list
Originates ==
    /\ Dequeues
    /\ ~Clears
    /\ \/ crawl_data'.results # crawl_data.results
       \/ Len(crawl_data'.queue) >= Len(crawl_data.queue)
       \/ crawl_data'.categories # crawl_data.categories

\* the page the step dequeued may be scanned: its request was answered with
\* HTML, and it is same-site by its final url or was dequeued at depth <= 1
Scannable ==
    /\ last'.fetched
    /\ last'.kind = "html"
    /\ \/ ~IsExternal(last'.final_url, crawl_data.main_domain)
       \/ last'.depth <= 1

\* C21: no result and no frontier entry originates from a page that is
\* external to the main site by its final url and was dequeued at depth
\* greater than 1.  Every step whose page yields a result, a frontier entry
\* or the category list dequeued a page that is same-site by its final url
\* or of depth <= 1, and every result it adds names that page's final url.
C21_ScannedSameSiteOrShallow ==
    [][Originates
       => /\ Scannable
          /\ Len(crawl_data'.results) >= Len(crawl_data.results)
          /\ \A i \in (Len(crawl_data.results) + 1)..Len(crawl_data'.results) :
                crawl_data'.results[i][1] = last'.final_url]_vars

\* an entry of depth 2 with an external url was redirected to the main site:
\* its page was scanned, the match found on it is a result and paused the run
C21_Witness ==
    /\ pc = "idle"
    /\ last.fetched
    /\ last.kind = "html"
    /\ last.depth > 1
    /\ IsExternal(last.url, crawl_data.main_domain)
    /\ ~IsExternal(last.final_url, crawl_data.main_domain)
    /\ crawl_data.results # <<>>
    /\ crawl_data.results[Len(crawl_data.results)][1] = last.final_url
    /\ Len(crawl_data.status) >= 2
    /\ crawl_data.status[Len(crawl_data.status) - 1] = "match"
====
